---- MODULE Spec2Model ----
(***************************************************************************)
(* Model of scripts/diff_screenshots.py: one run of main() over a run      *)
(* folder holding explore/*.png and script/*.png.                          *)
(*                                                                         *)
(* Keys (file stems) are sequences of ASCII codes, ordered as Python       *)
(* orders str.  An image is a record [mode, width, height, px] with px a   *)
(* function from <<x, y>> to a tuple of channel values.  Scores are        *)
(* Python floats, computed operation by operation with IEEE 754 rounding   *)
(* (see "Python floats" below); sum() adds from left to right, as CPython  *)
(* before 3.12 does.  Images have fewer than 2^15 pixels.                  *)
(* The report is kept structured: one record per pair section (key, label, *)
(* score, size note) and one record for the recommendation block; the      *)
(* two-decimal formatting of the scores is not modelled.  diff_dir holds   *)
(* what this run saves; the resolution of run_dir (lines 80-90) precedes   *)
(* the modelled part of main().                                            *)
(***************************************************************************)
EXTENDS Integers, Sequences, FiniteSets, TLC

VARIABLES
    explore_dir,    \* [is_dir, files]: explore/ as found on disk
    script_dir,     \* [is_dir, files]: script/ as found on disk
    pc,             \* position of main()
    outcome,        \* "running", "SystemExit", "exception", "ok"
    diff_dir,       \* [is_dir, files]: diff/ as written by this run
    pairs,          \* the dict of build_pairs, in insertion order
    todo,           \* items of sorted(pairs.items()) not yet iterated
    key,            \* key of the current iteration
    explore_img,    \* local of main()
    script_img,     \* local of main()
    size_mismatch,  \* local of main()
    diff,           \* local of main()
    diff_rms,       \* local of main()
    results,        \* list of <<key, rms, size_mismatch>>
    report_lines,   \* the per-pair sections appended so far
    report_file     \* report.md: NoReport or the text written

vars == <<explore_dir, script_dir, pc, outcome, diff_dir, pairs, todo, key,
          explore_img, script_img, size_mismatch, diff, diff_rms, results,
          report_lines, report_file>>

-----------------------------------------------------------------------------
(* Bounds and inputs *)

NumKeys == 3

\* the stems "10", "1", "1-2", "2", "0"
KeyPool == << <<49, 48>>, <<49>>, <<49, 45, 50>>, <<50>>, <<48>> >>

\* ".png"
Suffix == <<46, 112, 110, 103>>

Keys == { KeyPool[i] : i \in 1..NumKeys }

NoKey == << >>

NoImage == [mode |-> "none"]

NoFile == [kind |-> "none"]

Corrupt == [kind |-> "corrupt"]

Png(mode, w, h, px) ==
    [kind |-> "png", mode |-> mode, width |-> w, height |-> h, px |-> px]

E_gray == Png("RGB", 1, 1, (<<0, 0>> :> <<30, 30, 30>>))

E_tall == Png("RGB", 1, 2, (<<0, 0>> :> <<30, 30, 30>>) @@ (<<0, 1>> :> <<30, 30, 30>>))

S_same == Png("L", 1, 1, (<<0, 0>> :> <<30>>))

S_dark == Png("RGB", 1, 1, (<<0, 0>> :> <<8, 8, 8>>))

S_black == Png("RGBA", 1, 1, (<<0, 0>> :> <<0, 0, 0, 255>>))

S_wide == Png("RGB", 2, 1, (<<0, 0>> :> <<30, 30, 30>>) @@ (<<1, 0>> :> <<75, 0, 0>>))

\* what explore/<key>.png and script/<key>.png can be for one key
Fixtures ==
    { [explore |-> NoFile, script |-> NoFile],
      [explore |-> E_gray, script |-> NoFile],
      [explore |-> Corrupt, script |-> NoFile],
      [explore |-> NoFile, script |-> S_dark],
      [explore |-> Corrupt, script |-> S_same],
      [explore |-> E_gray, script |-> S_same],
      [explore |-> E_gray, script |-> S_dark],
      [explore |-> E_gray, script |-> S_black],
      [explore |-> E_gray, script |-> S_wide],
      [explore |-> E_tall, script |-> S_same],
      [explore |-> E_tall, script |-> S_wide] }

NoReport == [written |-> FALSE]

-----------------------------------------------------------------------------
(* Arithmetic helpers *)

Max(a, b) == IF a >= b THEN a ELSE b

RECURSIVE SumSet(_, _)
SumSet(S, f) ==
    IF S = {} THEN 0
    ELSE LET e == CHOOSE x \in S : TRUE
         IN f[e] + SumSet(S \ {e}, f)

-----------------------------------------------------------------------------
(* Python floats.  A float is [m, e] with value m * 2^e, m a natural       *)
(* number of at most 53 bits written as a little-endian sequence of limbs  *)
(* in base 2^15 without leading zero limbs (zero is the empty sequence).   *)
(* Every operation computes the exact result and rounds it to 53 bits,     *)
(* ties to even, as IEEE 754 double arithmetic does.                       *)

Base == 2^15

RECURSIVE BNorm(_)
BNorm(a) ==
    IF a = << >> THEN << >>
    ELSE IF a[Len(a)] = 0 THEN BNorm(SubSeq(a, 1, Len(a) - 1))
    ELSE a

RECURSIVE BFromInt(_)
BFromInt(n) == IF n = 0 THEN << >> ELSE <<n % Base>> \o BFromInt(n \div Base)

RECURSIVE BToInt(_)
BToInt(a) == IF a = << >> THEN 0 ELSE Head(a) + Base * BToInt(Tail(a))

Limb0(a) == IF a = << >> THEN 0 ELSE Head(a)

Rest(a) == IF a = << >> THEN << >> ELSE Tail(a)

RECURSIVE BAddC(_, _, _)
BAddC(a, b, carry) ==
    IF a = << >> /\ b = << >>
    THEN IF carry = 0 THEN << >> ELSE <<carry>>
    ELSE LET x == Limb0(a) + Limb0(b) + carry
         IN <<x % Base>> \o BAddC(Rest(a), Rest(b), x \div Base)

BAdd(a, b) == BAddC(a, b, 0)

\* a - b - borrow for a >= b + borrow, before normalisation
RECURSIVE BSubC(_, _, _)
BSubC(a, b, borrow) ==
    IF a = << >> THEN << >>
    ELSE LET x == Head(a) - Limb0(b) - borrow
         IN IF x < 0
            THEN <<x + Base>> \o BSubC(Tail(a), Rest(b), 1)
            ELSE <<x>> \o BSubC(Tail(a), Rest(b), 0)

BSub(a, b) == BNorm(BSubC(a, b, 0))

\* compares two numbers of the same length from the top limb down
RECURSIVE BCmpFrom(_, _, _)
BCmpFrom(a, b, i) ==
    IF i = 0 THEN 0
    ELSE IF a[i] < b[i] THEN -1
    ELSE IF a[i] > b[i] THEN 1
    ELSE BCmpFrom(a, b, i - 1)

\* -1, 0 or 1 as a < b, a = b or a > b
BCmp(a, b) ==
    IF Len(a) < Len(b) THEN -1
    ELSE IF Len(a) > Len(b) THEN 1
    ELSE BCmpFrom(a, b, Len(a))

RECURSIVE BMulSmallC(_, _, _)
BMulSmallC(a, k, carry) ==
    IF a = << >>
    THEN IF carry = 0 THEN << >> ELSE <<carry>>
    ELSE LET x == Head(a) * k + carry
         IN <<x % Base>> \o BMulSmallC(Tail(a), k, x \div Base)

\* a * k for 0 <= k < Base
BMulSmall(a, k) == BNorm(BMulSmallC(a, k, 0))

RECURSIVE Zeros(_)
Zeros(j) == IF j = 0 THEN << >> ELSE <<0>> \o Zeros(j - 1)

\* a * Base^j
BShlLimbs(a, j) == IF a = << >> THEN << >> ELSE Zeros(j) \o a

RECURSIVE BMul(_, _)
BMul(a, b) ==
    IF a = << >> \/ b = << >> THEN << >>
    ELSE BAdd(BMulSmall(a, Head(b)), BShlLimbs(BMul(a, Tail(b)), 1))

RECURSIVE Pow2(_)
Pow2(k) == IF k = 0 THEN 1 ELSE 2 * Pow2(k - 1)

\* a * 2^k
BShl(a, k) == BShlLimbs(BMulSmall(a, Pow2(k % 15)), k \div 15)

\* quotient and remainder of a by d, 0 < d < Base
RECURSIVE BDivSmall(_, _)
BDivSmall(a, d) ==
    IF a = << >> THEN [q |-> << >>, r |-> 0]
    ELSE LET hi == BDivSmall(Tail(a), d)
             cur == hi.r * Base + Head(a)
         IN [q |-> <<cur \div d>> \o hi.q, r |-> cur % d]

\* floor(a / 2^k)
BShr(a, k) ==
    IF k \div 15 >= Len(a) THEN << >>
    ELSE BNorm(BDivSmall(SubSeq(a, k \div 15 + 1, Len(a)), Pow2(k % 15)).q)

RECURSIVE IntBits(_)
IntBits(n) == IF n = 0 THEN 0 ELSE 1 + IntBits(n \div 2)

BBitLen(a) == IF a = << >> THEN 0 ELSE 15 * (Len(a) - 1) + IntBits(a[Len(a)])

BIsOdd(a) == a # << >> /\ Head(a) % 2 = 1

FZero == [m |-> << >>, e |-> 0]

IntF(n) == [m |-> BFromInt(n), e |-> 0]

\* the exact value M * 2^e (plus a non-zero fraction of its last unit when
\* sticky) rounded to 53 bits, ties to even
Round53(M, e, sticky) ==
    IF M = << >> THEN FZero
    ELSE IF BBitLen(M) <= 53 THEN [m |-> M, e |-> e]
    ELSE LET d == BBitLen(M) - 53
             keep == BShr(M, d)
             rem == BSub(M, BShl(keep, d))
             half == BShl(<<1>>, d - 1)
             c == BCmp(rem, half)
             up == c = 1 \/ (c = 0 /\ (sticky \/ BIsOdd(keep)))
         IN [m |-> IF up THEN BAdd(keep, <<1>>) ELSE keep, e |-> e + d]

\* a / n for an int 0 < n < Base
FDivInt(a, n) ==
    LET d == BDivSmall(BShlLimbs(a.m, 5), n)
    IN Round53(BNorm(d.q), a.e - 75, d.r # 0)

FMul(a, b) == Round53(BMul(a.m, b.m), a.e + b.e, FALSE)

FAdd(a, b) ==
    IF a.m = << >> THEN b
    ELSE IF b.m = << >> THEN a
    ELSE IF a.e >= b.e
    THEN Round53(BAdd(BShl(a.m, a.e - b.e), b.m), b.e, FALSE)
    ELSE Round53(BAdd(a.m, BShl(b.m, b.e - a.e)), a.e, FALSE)

\* the largest d in lo..hi with (twoR * Base + d) * d <= rem
RECURSIVE SqrtDigit(_, _, _, _)
SqrtDigit(twoR, rem, lo, hi) ==
    IF lo >= hi THEN lo
    ELSE LET mid == (lo + hi + 1) \div 2
         IN IF BCmp(BMulSmall(BNorm(<<mid>> \o twoR), mid), rem) <= 0
            THEN SqrtDigit(twoR, rem, mid, hi)
            ELSE SqrtDigit(twoR, rem, lo, mid - 1)

\* floor of the square root of X, an even number of limbs (leading zero
\* limbs allowed), with the remainder: one limb of root per two limbs of X
RECURSIVE BSqrtRem(_)
BSqrtRem(X) ==
    IF X = << >> THEN [R |-> << >>, rem |-> << >>]
    ELSE LET hi == BSqrtRem(SubSeq(X, 3, Len(X)))
             rem1 == BNorm(<<X[1], X[2]>> \o hi.rem)
             twoR == BMulSmall(hi.R, 2)
             d == SqrtDigit(twoR, rem1, 0, Base - 1)
         IN [R |-> BNorm(<<d>> \o hi.R),
             rem |-> BSub(rem1, BMulSmall(BNorm(<<d>> \o twoR), d))]

\* math.sqrt
FSqrt(a) ==
    IF a.m = << >> THEN FZero
    ELSE LET k0 == 15 * (9 - Len(a.m))
             k == IF (a.e - k0) % 2 = 0 THEN k0 ELSE k0 + 1
             X == BShl(a.m, k)
             s == BSqrtRem(IF Len(X) % 2 = 0 THEN X ELSE X \o <<0>>)
         IN Round53(s.R, (a.e - k) \div 2, s.rem # << >>)

\* -1, 0 or 1 as a < n / d, a = n / d or a > n / d, for ints n >= 0, 0 < d < Base
FCmpRatio(a, n, d) ==
    IF a.e >= 0
    THEN BCmp(BShl(BMulSmall(a.m, d), a.e), BFromInt(n))
    ELSE BCmp(BMulSmall(a.m, d), BShl(BFromInt(n), -a.e))

\* -1, 0 or 1 as a < b, a = b or a > b
FCmp(a, b) ==
    IF a.e >= b.e
    THEN BCmp(BShl(a.m, a.e - b.e), b.m)
    ELSE BCmp(a.m, BShl(b.m, b.e - a.e))

FLess(a, b) == FCmp(a, b) < 0

\* sum(...) of a list of floats, from left to right starting at 0
RECURSIVE FSum(_)
FSum(s) ==
    IF s = << >> THEN FZero
    ELSE FAdd(FSum(SubSeq(s, 1, Len(s) - 1)), s[Len(s)])

-----------------------------------------------------------------------------
(* Key order: Python's str comparison *)

RECURSIVE StrLess(_, _)
StrLess(a, b) ==
    IF b = << >> THEN FALSE
    ELSE IF a = << >> THEN TRUE
    ELSE IF Head(a) # Head(b) THEN Head(a) < Head(b)
    ELSE StrLess(Tail(a), Tail(b))

\* sorted(...) of the paths <dir>/<stem>.png, given and returned as stems:
\* paths of one directory compare by file name
RECURSIVE SortedPaths(_)
SortedPaths(S) ==
    IF S = {} THEN << >>
    ELSE LET m == CHOOSE x \in S :
                      \A y \in S \ {x} : StrLess(x \o Suffix, y \o Suffix)
         IN <<m>> \o SortedPaths(S \ {m})

RECURSIVE InsertItem(_, _)
InsertItem(item, s) ==
    IF s = << >> THEN <<item>>
    ELSE IF StrLess(item.key, Head(s).key) THEN <<item>> \o s
    ELSE <<Head(s)>> \o InsertItem(item, Tail(s))

RECURSIVE InsertItemDescending(_, _)
InsertItemDescending(item, s) ==
    IF s = << >> THEN <<item>>
    ELSE IF StrLess(Head(s).key, item.key) THEN <<item>> \o s
    ELSE <<Head(s)>> \o InsertItemDescending(item, Tail(s))

\* sorted(pairs.items(), reverse=True)
RECURSIVE SortedItems_Descending(_)
SortedItems_Descending(s) ==
    IF s = << >> THEN << >>
    ELSE InsertItemDescending(Head(s), SortedItems_Descending(Tail(s)))

RECURSIVE SortedItems(_)
SortedItems(s) ==
    IF s = << >> THEN << >>
    ELSE InsertItem(Head(s), SortedItems(Tail(s)))

-----------------------------------------------------------------------------
(* Image functions *)

Size(img) == <<img.width, img.height>>

Pixels(w, h) == (0..(w - 1)) \X (0..(h - 1))

\* Image.open succeeds only on a decodable file
CanOpen(file) == file.kind = "png"

\* img.convert("RGB"): luminance is replicated, alpha is dropped
ConvertRGB(mode, p) ==
    IF mode = "L" THEN <<p[1], p[1], p[1]>>
    ELSE IF mode = "RGBA" THEN <<p[1], p[2], p[3]>>
    ELSE p

load_image(file) ==
    IF file.mode # "RGB"
    THEN [mode |-> "RGB", width |-> file.width, height |-> file.height,
          px |-> [p \in Pixels(file.width, file.height) |->
                     ConvertRGB(file.mode, file.px[p])]]
    ELSE [mode |-> "RGB", width |-> file.width, height |-> file.height,
          px |-> file.px]

\* Image.new("RGB", (max_w, max_h), (0, 0, 0)) followed by paste(img, (0, 0))
pad(img, max_w, max_h) ==
    IF img.width = max_w /\ img.height = max_h
    THEN img
    ELSE [mode |-> "RGB", width |-> max_w, height |-> max_h,
          px |-> [p \in Pixels(max_w, max_h) |->
                     IF p[1] < img.width /\ p[2] < img.height
                     THEN img.px[p] ELSE <<0, 0, 0>>]]

Min(a, b) == IF a <= b THEN a ELSE b

\* the canvas sized to the smaller of the two images
pad_to_same_size_min(a, b) ==
    LET min_w == Min(a.width, b.width)
        min_h == Min(a.height, b.height)
    IN <<pad(a, min_w, min_h), pad(b, min_w, min_h)>>

pad_to_same_size(a, b) ==
    LET max_w == Max(a.width, b.width)
        max_h == Max(a.height, b.height)
    IN <<pad(a, max_w, max_h), pad(b, max_w, max_h)>>

Abs(x) == IF x < 0 THEN -x ELSE x

\* ImageChops.add in place of ImageChops.difference: min(a + b, 255)
difference_add(a, b) ==
    [mode |-> "RGB", width |-> a.width, height |-> a.height,
     px |-> [p \in Pixels(a.width, a.height) |->
                [c \in 1..3 |-> Min(a.px[p][c] + b.px[p][c], 255)]]]

\* ImageChops.difference: abs(a - b) per pixel and channel
difference(a, b) ==
    [mode |-> "RGB", width |-> a.width, height |-> a.height,
     px |-> [p \in Pixels(a.width, a.height) |->
                [c \in 1..3 |-> Abs(a.px[p][c] - b.px[p][c])]]]

\* ImageStat.Stat(img).rms: sqrt(sum2[c] / count[c]) for every band c
StatRms(img) ==
    LET count == img.width * img.height
        sum2(c) == SumSet(Pixels(img.width, img.height),
                          [p \in Pixels(img.width, img.height) |->
                              img.px[p][c] * img.px[p][c]])
    IN [c \in 1..3 |-> FSqrt(FDivInt(IntF(sum2(c)), count))]

\* rms(stat) on the list ImageStat returns:
\* math.sqrt(sum(v * v for v in stat) / len(stat))
rms(stat) ==
    FSqrt(FDivInt(FSum([i \in 1..Len(stat) |-> FMul(stat[i], stat[i])]),
                  Len(stat)))

-----------------------------------------------------------------------------
(* Thresholds and classification *)

MATCH_THRESHOLD == IntF(22)

REVIEW_THRESHOLD == IntF(30)

\* both comparisons inclusive
Verdict_Inclusive(r) ==
    IF ~FLess(MATCH_THRESHOLD, r) THEN "MATCH (rendering noise)"
    ELSE IF ~FLess(REVIEW_THRESHOLD, r) THEN "REVIEW (possible change)"
    ELSE "DIFFERS (different content)"

Verdict(r) ==
    IF FLess(r, MATCH_THRESHOLD) THEN "MATCH (rendering noise)"
    ELSE IF FLess(r, REVIEW_THRESHOLD) THEN "REVIEW (possible change)"
    ELSE "DIFFERS (different content)"

matches(res) == LET T(x) == FLess(x[2], MATCH_THRESHOLD) IN SelectSeq(res, T)

\* the lower bound of the minor band taken strictly
minor_diffs_strict(res) ==
    LET T(x) == FLess(MATCH_THRESHOLD, x[2]) /\ FLess(x[2], REVIEW_THRESHOLD)
    IN SelectSeq(res, T)

minor_diffs(res) ==
    LET T(x) == ~FLess(x[2], MATCH_THRESHOLD) /\ FLess(x[2], REVIEW_THRESHOLD)
    IN SelectSeq(res, T)

major_diffs(res) == LET T(x) == ~FLess(x[2], REVIEW_THRESHOLD) IN SelectSeq(res, T)

KR(s) == [i \in 1..Len(s) |-> <<s[i][1], s[i][2]>>]

\* the minor branch tested before the major branch
Recommendation_MinorFirst(res) ==
    LET ma == KR(matches(res))
        mi == KR(minor_diffs(res))
        mj == KR(major_diffs(res))
        counts == [matches |-> Len(ma), minor |-> Len(mi), major |-> Len(mj),
                   total |-> Len(res)]
    IN IF mj = << >> /\ mi = << >>
       THEN [counts |-> counts, verdict |-> "ALL CLEAR",
             first_major |-> << >>, steps |-> << >>]
       ELSE IF mi # << >>
       THEN [counts |-> counts, verdict |-> "REVIEW NEEDED",
             first_major |-> << >>, steps |-> mi]
       ELSE [counts |-> counts, verdict |-> "SCRIPTS NEED UPDATE",
             first_major |-> <<mj[1]>>, steps |-> mj]

\* the recommendation block of main()
Recommendation(res) ==
    LET ma == KR(matches(res))
        mi == KR(minor_diffs(res))
        mj == KR(major_diffs(res))
        counts == [matches |-> Len(ma), minor |-> Len(mi), major |-> Len(mj),
                   total |-> Len(res)]
    IN IF mj = << >> /\ mi = << >>
       THEN [counts |-> counts, verdict |-> "ALL CLEAR",
             first_major |-> << >>, steps |-> << >>]
       ELSE IF mj # << >>
       THEN [counts |-> counts, verdict |-> "SCRIPTS NEED UPDATE",
             first_major |-> <<mj[1]>>, steps |-> mj]
       ELSE [counts |-> counts, verdict |-> "REVIEW NEEDED",
             first_major |-> << >>, steps |-> mi]

-----------------------------------------------------------------------------
(* Pair matching *)

\* the stems of sorted(dir.glob("*.png")), in that order; nothing is
\* listed unless dir.is_dir()
Stems(dir) ==
    IF dir.is_dir
    THEN SortedPaths({k \in Keys : dir.files[k].kind # "none"})
    ELSE << >>

HasKey(s, k) == \E i \in 1..Len(s) : s[i].key = k

\* pairs.setdefault(key, {})[side] = path
SetDefault(s, k, side) ==
    IF HasKey(s, k)
    THEN [i \in 1..Len(s) |->
             IF s[i].key = k
             THEN [key |-> k, items |-> s[i].items \cup {side}]
             ELSE s[i]]
    ELSE Append(s, [key |-> k, items |-> {side}])

RECURSIVE AddAll(_, _, _)
AddAll(s, stems, side) ==
    IF stems = << >> THEN s
    ELSE AddAll(SetDefault(s, Head(stems), side), Tail(stems), side)

build_pairs(edir, sdir) ==
    AddAll(AddAll(<< >>, Stems(edir), "explore"), Stems(sdir), "script")

-----------------------------------------------------------------------------
(* The run *)

\* a directory holding the given files, and also no directory at all when
\* there are none
DirListings(files) ==
    IF \A k \in Keys : files[k] = NoFile
    THEN { [is_dir |-> d, files |-> files] : d \in BOOLEAN }
    ELSE { [is_dir |-> TRUE, files |-> files] }

Init ==
    /\ \E f \in [Keys -> Fixtures] :
           /\ explore_dir \in DirListings([k \in Keys |-> f[k].explore])
           /\ script_dir \in DirListings([k \in Keys |-> f[k].script])
    /\ pc = "mkdir"
    /\ outcome = "running"
    /\ diff_dir = [is_dir |-> FALSE, files |-> [k \in Keys |-> NoImage]]
    /\ pairs = << >>
    /\ todo = << >>
    /\ key = NoKey
    /\ explore_img = NoImage
    /\ script_img = NoImage
    /\ size_mismatch = FALSE
    /\ diff = NoImage
    /\ diff_rms = FZero
    /\ results = << >>
    /\ report_lines = << >>
    /\ report_file = NoReport

\* diff_dir.mkdir(parents=True, exist_ok=True)
MakeDiffDir ==
    /\ pc = "mkdir"
    /\ diff_dir' = [diff_dir EXCEPT !.is_dir = TRUE]
    /\ pc' = "build"
    /\ UNCHANGED <<explore_dir, script_dir, outcome, pairs, todo, key,
                   explore_img, script_img, size_mismatch, diff, diff_rms,
                   results, report_lines, report_file>>

\* pairs = build_pairs(run_dir), pairs not empty: the loop starts over
\* sorted(pairs.items())
BuildPairs ==
    /\ pc = "build"
    /\ build_pairs(explore_dir, script_dir) # << >>
    /\ pairs' = build_pairs(explore_dir, script_dir)
    /\ todo' = SortedItems(pairs')
    /\ pc' = "loop"
    /\ UNCHANGED <<explore_dir, script_dir, outcome, diff_dir, key,
                   explore_img, script_img, size_mismatch, diff, diff_rms,
                   results, report_lines, report_file>>

\* if not pairs: raise SystemExit("No explore/script screenshot pairs found")
NoPairsExit ==
    /\ pc = "build"
    /\ build_pairs(explore_dir, script_dir) = << >>
    /\ pairs' = << >>
    /\ pc' = "exit"
    /\ outcome' = "SystemExit"
    /\ UNCHANGED <<explore_dir, script_dir, diff_dir, todo, key,
                   explore_img, script_img, size_mismatch, diff, diff_rms,
                   results, report_lines, report_file>>

Complete(item) == "explore" \in item.items /\ "script" \in item.items

\* if not explore_path or not script_path: continue
SkipIncomplete ==
    /\ pc = "loop"
    /\ todo # << >>
    /\ ~Complete(Head(todo))
    /\ key' = Head(todo).key
    /\ todo' = Tail(todo)
    /\ UNCHANGED <<explore_dir, script_dir, pc, outcome, diff_dir, pairs,
                   explore_img, script_img, size_mismatch, diff, diff_rms,
                   results, report_lines, report_file>>

\* explore_img = load_image(explore_path); script_img = load_image(script_path)
LoadImages ==
    /\ pc = "loop"
    /\ todo # << >>
    /\ Complete(Head(todo))
    /\ CanOpen(explore_dir.files[Head(todo).key])
    /\ CanOpen(script_dir.files[Head(todo).key])
    /\ key' = Head(todo).key
    /\ todo' = Tail(todo)
    /\ explore_img' = load_image(explore_dir.files[key'])
    /\ script_img' = load_image(script_dir.files[key'])
    /\ pc' = "compare"
    /\ UNCHANGED <<explore_dir, script_dir, outcome, diff_dir, pairs,
                   size_mismatch, diff, diff_rms, results, report_lines,
                   report_file>>

\* Image.open raises inside load_image; nothing in main() catches it
LoadFails ==
    /\ pc = "loop"
    /\ todo # << >>
    /\ Complete(Head(todo))
    /\ \/ ~CanOpen(explore_dir.files[Head(todo).key])
       \/ ~CanOpen(script_dir.files[Head(todo).key])
    /\ key' = Head(todo).key
    /\ todo' = Tail(todo)
    /\ pc' = "exit"
    /\ outcome' = "exception"
    /\ UNCHANGED <<explore_dir, script_dir, diff_dir, pairs, explore_img,
                   script_img, size_mismatch, diff, diff_rms, results,
                   report_lines, report_file>>

\* size check, padding, ImageChops.difference, ImageStat.Stat, rms
Compare ==
    /\ pc = "compare"
    /\ size_mismatch' = (Size(explore_img) # Size(script_img))
    /\ explore_img' = IF size_mismatch'
                      THEN pad_to_same_size(explore_img, script_img)[1]
                      ELSE explore_img
    /\ script_img' = IF size_mismatch'
                     THEN pad_to_same_size(explore_img, script_img)[2]
                     ELSE script_img
    /\ diff' = difference(explore_img', script_img')
    /\ \E stat \in {StatRms(diff')} : diff_rms' = rms(stat)
    /\ pc' = "record"
    /\ UNCHANGED <<explore_dir, script_dir, outcome, diff_dir, pairs, todo,
                   key, results, report_lines, report_file>>

\* diff.save(diff_path); results.append(...); the pair's report section
Record ==
    /\ pc = "record"
    /\ diff_dir' = [diff_dir EXCEPT !.files[key] = diff]
    /\ results' = Append(results, <<key, diff_rms, size_mismatch>>)
    /\ report_lines' = Append(report_lines,
                              [key |-> key, verdict |-> Verdict(diff_rms),
                               rms |-> diff_rms, size_note |-> size_mismatch])
    /\ pc' = "loop"
    /\ UNCHANGED <<explore_dir, script_dir, outcome, pairs, todo, key,
                   explore_img, script_img, size_mismatch, diff, diff_rms,
                   report_file>>

\* the write reached while pairs are still to be iterated
WriteReport_Early ==
    /\ pc = "loop"
    /\ report_file' = [written |-> TRUE, sections |-> report_lines,
                       recommendation |-> Recommendation(results)]
    /\ pc' = "done"
    /\ outcome' = "ok"
    /\ UNCHANGED <<explore_dir, script_dir, diff_dir, pairs, todo, key,
                   explore_img, script_img, size_mismatch, diff, diff_rms,
                   results, report_lines>>

\* the recommendation block and report_path.write_text(...)
WriteReport ==
    /\ pc = "loop"
    /\ todo = << >>
    /\ report_file' = [written |-> TRUE, sections |-> report_lines,
                       recommendation |-> Recommendation(results)]
    /\ pc' = "done"
    /\ outcome' = "ok"
    /\ UNCHANGED <<explore_dir, script_dir, diff_dir, pairs, todo, key,
                   explore_img, script_img, size_mismatch, diff, diff_rms,
                   results, report_lines>>

Next ==
    \/ MakeDiffDir
    \/ BuildPairs
    \/ NoPairsExit
    \/ SkipIncomplete
    \/ LoadImages
    \/ LoadFails
    \/ Compare
    \/ Record
    \/ WriteReport

Spec == Init /\ [][Next]_vars

-----------------------------------------------------------------------------
(* Vocabulary of the properties, read off the inputs and the outputs *)

OnBothSides(k) ==
    explore_dir.files[k].kind # "none" /\ script_dir.files[k].kind # "none"

CompleteKeys == {k \in Keys : OnBothSides(k)}

OneSidedKeys ==
    {k \in Keys : ~OnBothSides(k) /\ (explore_dir.files[k].kind # "none"
                                      \/ script_dir.files[k].kind # "none")}

Decodable(k) ==
    explore_dir.files[k].kind = "png" /\ script_dir.files[k].kind = "png"

ResultKeys == {results[i][1] : i \in 1..Len(results)}

SectionKeys == {report_lines[i].key : i \in 1..Len(report_lines)}

DiffKeys == {k \in Keys : diff_dir.files[k] # NoImage}

Finished == pc \in {"done", "exit"}

Written == report_file.written

\* the score r against the number n: r < n, r = n, r >= n
Below(r, n) == FCmpRatio(r, n, 1) < 0

Exactly(r, n) == FCmpRatio(r, n, 1) = 0

AtLeast(r, n) == FCmpRatio(r, n, 1) >= 0

IsMatch(r) == Below(r, 22)

IsMinor(r) == AtLeast(r, 22) /\ Below(r, 30)

IsMajor(r) == AtLeast(r, 30)

MajorIdx == {i \in 1..Len(results) : IsMajor(results[i][2])}

MinorIdx == {i \in 1..Len(results) : IsMinor(results[i][2])}

MatchIdx == {i \in 1..Len(results) : IsMatch(results[i][2])}

Ascending(ks) == \A i, j \in 1..Len(ks) : i < j => StrLess(ks[i], ks[j])

AllZero(img) ==
    \A p \in Pixels(img.width, img.height) : \A c \in 1..3 : img.px[p][c] = 0

-----------------------------------------------------------------------------
(* C1: a run that ends with zero compared pairs (no key has a file on both *)
(* sides) has aborted with the "no pairs found" SystemExit and has written *)
(* no report and no verdict.                                               *)
C1_ZeroPairsAbort ==
    (Finished /\ CompleteKeys = {})
        => (outcome = "SystemExit" /\ ~Written)

(* C2: a failure to load the images of one complete pair does not abort    *)
(* the run: the run ends with a report that leaves the failing pair out    *)
(* and has a section for every other complete pair.                        *)
C2_LoadFailureIsolated ==
    (Finished /\ \E k \in CompleteKeys : ~Decodable(k))
        => /\ Written
           /\ \A k \in CompleteKeys :
                  Decodable(k) <=> (k \in SectionKeys /\ k \in ResultKeys)

(* C3: over a non-empty list of compared pairs the written verdict is      *)
(* SCRIPTS NEED UPDATE iff some pair is major, REVIEW NEEDED iff no pair   *)
(* is major and some pair is minor, ALL CLEAR iff every pair is a match.   *)
C3_VerdictPriority ==
    (Written /\ results # << >>)
        => LET v == report_file.recommendation.verdict
           IN /\ v \in {"SCRIPTS NEED UPDATE", "REVIEW NEEDED", "ALL CLEAR"}
              /\ (v = "SCRIPTS NEED UPDATE") <=> (MajorIdx # {})
              /\ (v = "REVIEW NEEDED") <=> (MajorIdx = {} /\ MinorIdx # {})
              /\ (v = "ALL CLEAR") <=> (MatchIdx = 1..Len(results))

\* one major pair, outnumbered by minor pairs and not the first in key order
C3_Witness ==
    /\ Written
    /\ Cardinality(MajorIdx) = 1
    /\ Cardinality(MinorIdx) >= 2
    /\ 1 \notin MajorIdx
    /\ report_file.recommendation.verdict = "SCRIPTS NEED UPDATE"

(* C4: every pair's label is fixed by its score alone: below 22.0 MATCH,   *)
(* from 22.0 up to but excluding 30.0 REVIEW, from 30.0 on DIFFERS; every  *)
(* score is non-negative and gets exactly one label.                       *)
C4_Classification ==
    \A i \in 1..Len(report_lines) :
        LET s == report_lines[i]
        IN /\ AtLeast(s.rms, 0)
           /\ (s.verdict = "MATCH (rendering noise)") <=> Below(s.rms, 22)
           /\ (s.verdict = "REVIEW (possible change)")
                  <=> (AtLeast(s.rms, 22) /\ Below(s.rms, 30))
           /\ (s.verdict = "DIFFERS (different content)")
                  <=> AtLeast(s.rms, 30)

\* a score exactly at 22.0, one exactly at 30.0 and one just below 22.0
C4_Witness ==
    /\ \E i \in 1..Len(report_lines) :
           /\ Exactly(report_lines[i].rms, 22)
           /\ report_lines[i].verdict = "REVIEW (possible change)"
    /\ \E i \in 1..Len(report_lines) :
           /\ Exactly(report_lines[i].rms, 30)
           /\ report_lines[i].verdict = "DIFFERS (different content)"
    /\ \E i \in 1..Len(report_lines) :
           /\ AtLeast(report_lines[i].rms, 21)
           /\ Below(report_lines[i].rms, 22)
           /\ report_lines[i].verdict = "MATCH (rendering noise)"

(* C5: when some compared pair is major, the divergence point of the       *)
(* written report is the major pair with the smallest key, and the list of *)
(* diverging steps holds exactly the major pairs, in ascending key order.  *)
C5_DivergencePoint ==
    (Written /\ MajorIdx # {})
        => LET rec == report_file.recommendation
               steps == rec.steps
           IN /\ Len(rec.first_major) = 1
              /\ \E i \in MajorIdx :
                     /\ rec.first_major[1] = <<results[i][1], results[i][2]>>
                     /\ \A j \in MajorIdx \ {i} :
                            StrLess(results[i][1], results[j][1])
              /\ {steps[n] : n \in 1..Len(steps)}
                     = {<<results[i][1], results[i][2]>> : i \in MajorIdx}
              /\ Ascending([n \in 1..Len(steps) |-> steps[n][1]])

\* two major pairs, the one with the smaller key having the lower score,
\* and a non-major pair before them
C5_Witness ==
    /\ Written
    /\ Cardinality(MajorIdx) = 2
    /\ 1 \notin MajorIdx
    /\ \E i, j \in MajorIdx :
           /\ StrLess(results[i][1], results[j][1])
           /\ FLess(results[i][2], results[j][2])
           /\ report_file.recommendation.first_major[1][1] = results[i][1]

\* number of keys on both sides with a result among the indexes Idx
PairsAmong(Idx) ==
    Cardinality({k \in CompleteKeys : \E i \in Idx : results[i][1] = k})

\* a key with a file on one side only has no result, no diff image and no
\* report section, and no count of a written report includes it
OneSidedExcluded ==
    /\ \A k \in Keys \ CompleteKeys :
           k \notin ResultKeys /\ k \notin SectionKeys /\ k \notin DiffKeys
    /\ Written =>
           LET counts == report_file.recommendation.counts
           IN /\ counts.total = PairsAmong(1..Len(results))
              /\ counts.matches = PairsAmong(MatchIdx)
              /\ counts.minor = PairsAmong(MinorIdx)
              /\ counts.major = PairsAmong(MajorIdx)
              /\ Len(report_file.sections) = PairsAmong(1..Len(results))

\* when the run is over every key with files on both sides has a result, a
\* diff image and a report section
CompleteCompared ==
    Finished =>
        \A k \in CompleteKeys :
            k \in ResultKeys /\ k \in SectionKeys /\ k \in DiffKeys

(* C6: a key with a file on one side only never becomes a compared pair    *)
(* (no result, no diff image, no report section, not counted in the total  *)
(* nor in the MATCH, MINOR_DIFF and MAJOR_DIFF counts), and a key with     *)
(* files on both sides is always a compared pair: once the run is over it  *)
(* has a result, a diff image and a report section.                        *)
C6_OnlyCompletePairs == OneSidedExcluded /\ CompleteCompared

OrigExplore == load_image(explore_dir.files[key])

OrigScript == load_image(script_dir.files[key])

\* img is orig on a w x h canvas: orig's pixels from (0,0), zero elsewhere
PaddedFrom(img, orig, w, h) ==
    /\ img.width = w
    /\ img.height = h
    /\ \A p \in Pixels(w, h) :
           img.px[p] = IF p[1] < orig.width /\ p[2] < orig.height
                       THEN orig.px[p] ELSE <<0, 0, 0>>

SameOrigSize(k) ==
    /\ explore_dir.files[k].width = script_dir.files[k].width
    /\ explore_dir.files[k].height = script_dir.files[k].height

(* C7: the two images handed to the diff have the same width and height,   *)
(* the maximum width and maximum height of the two originals; each is its  *)
(* original anchored at (0,0) over zero pixels (unchanged when the sizes   *)
(* were equal); a pair's section carries the size note iff the original    *)
(* sizes differed.                                                         *)
C7_PaddedToMax ==
    /\ pc = "record" =>
           LET w == Max(OrigExplore.width, OrigScript.width)
               h == Max(OrigExplore.height, OrigScript.height)
           IN /\ PaddedFrom(explore_img, OrigExplore, w, h)
              /\ PaddedFrom(script_img, OrigScript, w, h)
              /\ diff.width = w /\ diff.height = h
              /\ SameOrigSize(key) =>
                     (explore_img = OrigExplore /\ script_img = OrigScript)
    /\ \A i \in 1..Len(report_lines) :
           report_lines[i].size_note <=> ~SameOrigSize(report_lines[i].key)

\* a 1x2 image against a 2x1 image: both padded to 2x2, and the pair recorded
C7_Witness ==
    /\ pc = "loop"
    /\ key \in Keys
    /\ explore_dir.files[key] = E_tall
    /\ script_dir.files[key] = S_wide
    /\ Size(explore_img) = <<2, 2>>
    /\ Size(script_img) = <<2, 2>>
    /\ \E i \in 1..Len(report_lines) :
           report_lines[i].key = key /\ report_lines[i].size_note

(* C8: for two pixel-identical images of the same size the diff image is   *)
(* all zero, the score is exactly 0 and the pair is a MATCH; no score is   *)
(* negative.                                                               *)
C8_IdenticalIsZero ==
    /\ AtLeast(diff_rms, 0)
    /\ \A i \in 1..Len(results) : AtLeast(results[i][2], 0)
    /\ (pc = "record" /\ OrigExplore = OrigScript) =>
           (AllZero(diff) /\ Exactly(diff_rms, 0))
    /\ \A i \in 1..Len(report_lines) :
           LET k == report_lines[i].key
           IN load_image(explore_dir.files[k]) = load_image(script_dir.files[k])
                  => /\ Exactly(report_lines[i].rms, 0)
                     /\ report_lines[i].verdict = "MATCH (rendering noise)"
                     /\ AllZero(diff_dir.files[k])

\* a grey RGB image against the same image stored as greyscale, recorded
C8_Witness ==
    /\ pc = "loop"
    /\ key \in Keys
    /\ explore_dir.files[key] = E_gray
    /\ script_dir.files[key] = S_same
    /\ \E i \in 1..Len(report_lines) :
           /\ report_lines[i].key = key
           /\ Exactly(report_lines[i].rms, 0)
           /\ report_lines[i].verdict = "MATCH (rendering noise)"

SectionsWith(v) ==
    {i \in 1..Len(report_file.sections) : report_file.sections[i].verdict = v}

(* C9: in a written report every compared pair is counted in exactly one   *)
(* of the three counts, the one of the verdict shown in its section, and   *)
(* the three counts add up to the total, the number of compared pairs.     *)
C9_CountsPartition ==
    Written =>
        LET c == report_file.recommendation.counts
        IN /\ c.matches = Cardinality(SectionsWith("MATCH (rendering noise)"))
           /\ c.minor = Cardinality(SectionsWith("REVIEW (possible change)"))
           /\ c.major = Cardinality(SectionsWith("DIFFERS (different content)"))
           /\ c.matches + c.minor + c.major = c.total
           /\ c.total = Len(report_file.sections)
           /\ c.total = Len(results)

\* a report with one pair in each count, the minor one exactly at 22.0
C9_Witness ==
    /\ Written
    /\ report_file.recommendation.counts
           = [matches |-> 1, minor |-> 1, major |-> 1, total |-> 3]
    /\ \E i \in 1..Len(results) : Exactly(results[i][2], 22)

ReportComplete ==
    /\ pc = "done"
    /\ outcome = "ok"
    /\ report_file.sections = report_lines
    /\ {report_lines[i].key : i \in 1..Len(report_lines)} = CompleteKeys
    /\ Len(report_lines) = Cardinality(CompleteKeys)
    /\ Ascending([i \in 1..Len(report_lines) |-> report_lines[i].key])
    /\ \A k \in CompleteKeys : diff_dir.is_dir /\ diff_dir.files[k] # NoImage

(* C10: the report is written at most once and as the last step: once it   *)
(* is written nothing changes any more; a written report has exactly one   *)
(* section per complete pair in ascending key order, and the diff image of *)
(* each of them was saved before the write; a run that stopped before the  *)
(* end has written no report.                                              *)
C10_ReportWrittenLast ==
    /\ [](Written => ReportComplete)
    /\ [](pc # "done" => ~Written)
    /\ [][/\ ~Written
          /\ Written' => /\ todo = << >>
                         /\ \A k \in CompleteKeys : diff_dir.files[k] # NoImage
                         /\ SectionKeys = CompleteKeys]_vars

\* a written report over three complete pairs
C10_Witness ==
    /\ Written
    /\ Cardinality(CompleteKeys) = 3
    /\ Len(report_file.sections) = 3
    /\ \A k \in CompleteKeys : diff_dir.files[k] # NoImage

====
